---- MODULE Spec2Model ----
(***************************************************************************)
(* A model of the Bloom filter of src/src/bloom-filter.ts and of the       *)
(* FNV-1a hash of src/src/fnv1a/index.ts.                                  *)
(*                                                                         *)
(* Numbers wider than 31 bits are pairs <<hi, lo>> standing for            *)
(* hi * 65536 + lo with lo in 0..65535; hi is negative for a negative      *)
(* number.  An optional property is a sequence: <<>> when absent           *)
(* (undefined), <<v>> when given.  falsePositiveRate is counted in         *)
(* thousandths (RateScale), Math.log is a table in millionths.             *)
(***************************************************************************)
EXTENDS Integers, Sequences, FiniteSets, TLC

VARIABLES status, props, error, bitArray, numHashes, hashFunction,
          added, repeated, lastOp, lastValue, lastCheck, lastNum, lastHashes,
          hPc, hString, hIndex, hash

filterVars == <<status, props, error, bitArray, numHashes, hashFunction>>
callVars == <<added, repeated, lastOp, lastValue, lastCheck, lastNum, lastHashes>>
hashVars == <<hPc, hString, hIndex, hash>>
vars == <<status, props, error, bitArray, numHashes, hashFunction,
          added, repeated, lastOp, lastValue, lastCheck, lastNum, lastHashes,
          hPc, hString, hIndex, hash>>

(***************************************************************************)
(* Bounds of the model.                                                    *)
(***************************************************************************)
MaxSize == 3
MaxNumHashes == 2
MaxMaxCapacity == 2
MaxStrLen == 3

(***************************************************************************)
(* 16-bit limbs.                                                           *)
(***************************************************************************)
Limb == 65536
HalfLimb == 32768

\* 2^k for the shift distances in use
Pow2(k) ==
    CASE k = 0 -> 1 [] k = 1 -> 2 [] k = 4 -> 16 [] k = 7 -> 128 [] k = 8 -> 256

RECURSIVE BitXor(_, _)
BitXor(a, b) ==
    IF a = 0 THEN b
    ELSE IF b = 0 THEN a
    ELSE (((a % 2) + (b % 2)) % 2) + 2 * BitXor(a \div 2, b \div 2)

Signed16(h) == IF h % Limb >= HalfLimb THEN (h % Limb) - Limb ELSE h % Limb

\* ToInt32 of a number: its value modulo 2^32, read as a signed 32-bit integer
ToInt32(w) == <<Signed16(w[1]), w[2]>>

\* x >>> 0: the value modulo 2^32, read as an unsigned 32-bit integer
ToUint32(w) == <<w[1] % Limb, w[2]>>

\* the ^ operator with a character code (0..65535) on the right
XorCode(w, c) == <<ToInt32(w)[1], BitXor(ToInt32(w)[2], c)>>

\* the << operator: a signed 32-bit result
ShiftLeft(w, k) ==
    IF k < 16
    THEN <<Signed16(w[1] * Pow2(k) + ((w[2] * Pow2(k)) \div Limb)),
           (w[2] * Pow2(k)) % Limb>>
    ELSE <<Signed16(w[2] * Pow2(k - 16)), 0>>

\* the + operator on numbers (exact, no wrap-around)
WideAdd(a, b) == <<a[1] + b[1] + ((a[2] + b[2]) \div Limb), (a[2] + b[2]) % Limb>>

WideIsNegative(w) == w[1] < 0

\* the % operator of the language: the result takes the sign of the dividend
JSRem(w, m) ==
    LET r == (((w[1] % m) * (Limb % m)) + w[2]) % m
    IN  IF WideIsNegative(w) /\ r # 0 THEN r - m ELSE r

(***************************************************************************)
(* fnv1a                                                                   *)
(***************************************************************************)
\* 2166136261 = 33052 * 65536 + 40389
OFFSET_BASIS_32 == <<33052, 40389>>

\* one iteration of the loop without the sixth term (hash << 7)
FnvRoundNoShift7(h, c) ==
    LET x == XorCode(h, c)
    IN  WideAdd(x, WideAdd(ShiftLeft(x, 1), WideAdd(ShiftLeft(x, 4),
            WideAdd(ShiftLeft(x, 8), ShiftLeft(x, 24)))))

\* one iteration of the loop: hash ^= code; hash += (hash << 1) + ...
FnvRound(h, c) ==
    LET x == XorCode(h, c)
    IN  WideAdd(x, WideAdd(ShiftLeft(x, 1), WideAdd(ShiftLeft(x, 4),
            WideAdd(ShiftLeft(x, 7), WideAdd(ShiftLeft(x, 8), ShiftLeft(x, 24))))))

RECURSIVE FnvLoopFrom(_, _, _)
FnvLoopFrom(h, string, i) ==
    IF i > Len(string) THEN h ELSE FnvLoopFrom(FnvRound(h, string[i]), string, i + 1)

fnv1a(string) == ToUint32(FnvLoopFrom(OFFSET_BASIS_32, string, 1))

(***************************************************************************)
(* Caller-supplied hash functions and values.                              *)
(***************************************************************************)
RECURSIVE SumCodes(_, _)
SumCodes(string, i) == IF i > Len(string) THEN 0 ELSE string[i] + SumCodes(string, i + 1)

\* the hash function named f applied to a string
ApplyHash(f, string) ==
    CASE f = "fnv1a" -> fnv1a(string)
      [] f = "sum" -> <<0, SumCodes(string, 1)>>
      [] f = "negSum" -> <<-1, Limb - SumCodes(string, 1)>>

HashFunctions == {"sum", "negSum"}

Str(s) == [type |-> "string", string |-> s, number |-> 0]
Num(n) == [type |-> "number", string |-> <<>>, number |-> n]

\* "a", "1" and the number 1
Values == {Str(<<97>>), Str(<<49>>), Num(1)}

\* Number.prototype.toString of a non-negative integer, as character codes
RECURSIVE decimalStringOf(_)
decimalStringOf(n) ==
    IF n < 10 THEN <<48 + n>> ELSE Append(decimalStringOf(n \div 10), 48 + (n % 10))

stringify(value) ==
    IF value.type = "string" THEN value.string ELSE decimalStringOf(value.number)

(***************************************************************************)
(* Constructor properties.                                                 *)
(***************************************************************************)
DEFAULT_ARRAY_SIZE == 10000
DEFAULT_NUM_HASHES == 4

RateScale == 1000
Micro == 1000000

\* Math.log(2) and Math.log(2) ** 2, in millionths
LN2 == 693147
LN2_SQUARED == 480453

\* Math.log of a rate given in thousandths, in millionths
MathLog(rate) ==
    CASE rate = 5 -> -5298317
      [] rate = 500 -> -693147
      [] rate = 1000 -> 0

Rates == {0, 5, 500, 1000, 2000}

Optional(S) == {<<>>} \cup {<<x>> : x \in S}
Given(field) == Len(field) = 1

PropsSet ==
    [size : Optional(-1 .. MaxSize),
     numHashes : Optional(-1 .. MaxNumHashes),
     falsePositiveRate : Optional(Rates),
     maxCapacity : Optional(-1 .. MaxMaxCapacity),
     hashFunction : Optional(HashFunctions)]

EmptyProps ==
    [size |-> <<>>, numHashes |-> <<>>, falsePositiveRate |-> <<>>,
     maxCapacity |-> <<>>, hashFunction |-> <<>>]

\* Math.round((size / maxCapacity) * Math.log(2))
calculateNumHashes(size, maxCapacity) ==
    (2 * size * LN2 + maxCapacity * Micro) \div (2 * maxCapacity * Micro)

\* Math.ceil((-maxCapacity * Math.log(falsePositiveRate)) / Math.log(2) ** 2)
calculateSize(maxCapacity, falsePositiveRate) ==
    -((maxCapacity * MathLog(falsePositiveRate)) \div LN2_SQUARED)

\* the range checks, with falsePositiveRate = 1 rejected as well
validatePropertiesStrictRate(p) ==
    IF Given(p.size) /\ p.size[1] <= 0 THEN "size"
    ELSE IF Given(p.numHashes) /\ p.numHashes[1] <= 0 THEN "numHashes"
    ELSE IF Given(p.falsePositiveRate)
            /\ (p.falsePositiveRate[1] <= 0 \/ p.falsePositiveRate[1] >= RateScale)
         THEN "falsePositiveRate"
    ELSE IF Given(p.maxCapacity) /\ p.maxCapacity[1] <= 0 THEN "maxCapacity"
    ELSE ""

\* the range checks of checkProperties: the property the TypeError names,
\* "" when none is thrown
validateProperties(p) ==
    IF Given(p.size) /\ p.size[1] <= 0 THEN "size"
    ELSE IF Given(p.numHashes) /\ p.numHashes[1] <= 0 THEN "numHashes"
    ELSE IF Given(p.falsePositiveRate)
            /\ (p.falsePositiveRate[1] <= 0 \/ p.falsePositiveRate[1] > RateScale)
         THEN "falsePositiveRate"
    ELSE IF Given(p.maxCapacity) /\ p.maxCapacity[1] <= 0 THEN "maxCapacity"
    ELSE ""

\* the resolution with the second and third branch exchanged
resolvePropertiesSwapped(p) ==
    IF Given(p.size) /\ Given(p.numHashes)
    THEN [size |-> p.size[1], numHashes |-> p.numHashes[1]]
    ELSE IF Given(p.maxCapacity) /\ Given(p.falsePositiveRate)
    THEN LET sizeCalculated == calculateSize(p.maxCapacity[1], p.falsePositiveRate[1])
         IN  [size |-> sizeCalculated,
              numHashes |-> calculateNumHashes(sizeCalculated, p.maxCapacity[1])]
    ELSE IF Given(p.size) /\ Given(p.maxCapacity)
    THEN [size |-> p.size[1],
          numHashes |-> calculateNumHashes(p.size[1], p.maxCapacity[1])]
    ELSE [size |-> IF Given(p.size) THEN p.size[1] ELSE DEFAULT_ARRAY_SIZE,
          numHashes |-> IF Given(p.numHashes) THEN p.numHashes[1] ELSE DEFAULT_NUM_HASHES]

\* the resolution with a last branch that ignores a given numHashes
resolvePropertiesNoFallback(p) ==
    IF Given(p.size) /\ Given(p.numHashes)
    THEN [size |-> p.size[1], numHashes |-> p.numHashes[1]]
    ELSE IF Given(p.size) /\ Given(p.maxCapacity)
    THEN [size |-> p.size[1],
          numHashes |-> calculateNumHashes(p.size[1], p.maxCapacity[1])]
    ELSE IF Given(p.maxCapacity) /\ Given(p.falsePositiveRate)
    THEN LET sizeCalculated == calculateSize(p.maxCapacity[1], p.falsePositiveRate[1])
         IN  [size |-> sizeCalculated,
              numHashes |-> calculateNumHashes(sizeCalculated, p.maxCapacity[1])]
    ELSE [size |-> IF Given(p.size) THEN p.size[1] ELSE DEFAULT_ARRAY_SIZE,
          numHashes |-> DEFAULT_NUM_HASHES]

\* the resolution of checkProperties, for properties that passed the checks
resolveProperties(p) ==
    IF Given(p.size) /\ Given(p.numHashes)
    THEN [size |-> p.size[1], numHashes |-> p.numHashes[1]]
    ELSE IF Given(p.size) /\ Given(p.maxCapacity)
    THEN [size |-> p.size[1],
          numHashes |-> calculateNumHashes(p.size[1], p.maxCapacity[1])]
    ELSE IF Given(p.maxCapacity) /\ Given(p.falsePositiveRate)
    THEN LET sizeCalculated == calculateSize(p.maxCapacity[1], p.falsePositiveRate[1])
         IN  [size |-> sizeCalculated,
              numHashes |-> calculateNumHashes(sizeCalculated, p.maxCapacity[1])]
    ELSE [size |-> IF Given(p.size) THEN p.size[1] ELSE DEFAULT_ARRAY_SIZE,
          numHashes |-> IF Given(p.numHashes) THEN p.numHashes[1] ELSE DEFAULT_NUM_HASHES]

checkProperties(p) ==
    IF validateProperties(p) # ""
    THEN [error |-> validateProperties(p), size |-> 0, numHashes |-> 0]
    ELSE [error |-> "", size |-> resolveProperties(p).size,
          numHashes |-> resolveProperties(p).numHashes]

(***************************************************************************)
(* The bit array.  length is the size it was made with, bits the indices   *)
(* in 0..length-1 that are set.  An index below 0 is outside the vector:   *)
(* whether a write there is kept (stray) or dropped depends on the storage *)
(* the bit-array package is built on, chosen when the array is made.       *)
(***************************************************************************)
NewBitArray(size, keepsStray) ==
    [length |-> size, bits |-> {}, stray |-> {}, keepsStray |-> keepsStray]

InVector(ba, index) == index >= 0 /\ index < ba.length

\* a set that forgets the bits set before
BitArraySetForgetful(ba, index, value) ==
    IF InVector(ba, index)
    THEN [ba EXCEPT !.bits = IF value THEN {index} ELSE {}]
    ELSE ba

\* a set that flips the bit instead of writing the value
BitArrayToggle(ba, index, value) ==
    IF InVector(ba, index)
    THEN [ba EXCEPT !.bits = IF index \in @ THEN @ \ {index} ELSE @ \cup {index}]
    ELSE IF ba.keepsStray
    THEN [ba EXCEPT !.stray = IF index \in @ THEN @ \ {index} ELSE @ \cup {index}]
    ELSE ba

\* bitArray.set(index, value)
BitArraySet(ba, index, value) ==
    IF InVector(ba, index)
    THEN [ba EXCEPT !.bits = IF value THEN @ \cup {index} ELSE @ \ {index}]
    ELSE IF ba.keepsStray
    THEN [ba EXCEPT !.stray = IF value THEN @ \cup {index} ELSE @ \ {index}]
    ELSE ba

\* bitArray.get(index)
BitArrayGet(ba, index) == index \in (ba.bits \cup ba.stray)

\* bitArray.size()
BitArraySize(ba) == ba.length

\* the indices the value maps to; hashes[i + 1] is the code's hashes[i]
getHashes(value, hf, nh, ba) ==
    [i \in 1 .. nh |->
        JSRem(ApplyHash(hf, stringify(value) \o decimalStringOf(i - 1)), BitArraySize(ba))]

\* forEach(index => bitArray.set(index, true)) from position i on
RECURSIVE SetEach(_, _, _)
SetEach(ba, hashes, i) ==
    IF i > Len(hashes) THEN ba
    ELSE SetEach(BitArraySet(ba, hashes[i], TRUE), hashes, i + 1)

(***************************************************************************)
(* The filter.  lastOp, lastValue, lastHashes, lastCheck and lastNum hold  *)
(* the last call, its argument, the indices it computed and what it        *)
(* returned (FALSE, 0, <<>> and NoValue when the call has none); added is  *)
(* the set of values passed to add so far, repeated whether the last call  *)
(* was an add of a value that had been added before.                       *)
(***************************************************************************)
NoValue == Str(<<>>)

\* new BloomFilter(props) and new BloomFilter(): arg is <<props>> or <<>>
Construct(arg) ==
    /\ status = "none"
    /\ LET p == IF Len(arg) = 0 THEN EmptyProps ELSE arg[1]
           r == checkProperties(p)
       IN  IF r.error # ""
           THEN /\ status' = "threw"
                /\ error' = r.error
                /\ UNCHANGED <<bitArray, numHashes, hashFunction>>
           ELSE /\ status' = "ok"
                /\ numHashes' = r.numHashes
                /\ hashFunction' = IF Len(arg) = 1 /\ Given(p.hashFunction)
                                   THEN p.hashFunction[1] ELSE "fnv1a"
                /\ \E keepsStray \in BOOLEAN : bitArray' = NewBitArray(r.size, keepsStray)
                /\ UNCHANGED error
    /\ props' = arg
    /\ lastOp' = "new"
    /\ UNCHANGED <<added, repeated, lastValue, lastCheck, lastNum, lastHashes>>
    /\ UNCHANGED hashVars

add(value) ==
    /\ status = "ok"
    /\ LET hashes == getHashes(value, hashFunction, numHashes, bitArray)
       IN  /\ bitArray' = SetEach(bitArray, hashes, 1)
           /\ lastHashes' = hashes
    /\ added' = added \cup {value}
    /\ repeated' = (value \in added)
    /\ lastOp' = "add"
    /\ lastValue' = value
    /\ lastCheck' = FALSE
    /\ lastNum' = 0
    /\ UNCHANGED <<status, props, error, numHashes, hashFunction>>
    /\ UNCHANGED hashVars

check(value) ==
    /\ status = "ok"
    /\ LET hashes == getHashes(value, hashFunction, numHashes, bitArray)
       IN  /\ lastCheck' = (\A i \in 1 .. Len(hashes) : BitArrayGet(bitArray, hashes[i]))
           /\ lastHashes' = hashes
    /\ lastOp' = "check"
    /\ lastValue' = value
    /\ lastNum' = 0
    /\ repeated' = FALSE
    /\ UNCHANGED <<filterVars, added>>
    /\ UNCHANGED hashVars

getSize ==
    /\ status = "ok"
    /\ lastNum' = BitArraySize(bitArray)
    /\ lastOp' = "getSize"
    /\ lastValue' = NoValue
    /\ lastCheck' = FALSE
    /\ lastHashes' = <<>>
    /\ repeated' = FALSE
    /\ UNCHANGED <<filterVars, added>>
    /\ UNCHANGED hashVars

getNumHashes ==
    /\ status = "ok"
    /\ lastNum' = numHashes
    /\ lastOp' = "getNumHashes"
    /\ lastValue' = NoValue
    /\ lastCheck' = FALSE
    /\ lastHashes' = <<>>
    /\ repeated' = FALSE
    /\ UNCHANGED <<filterVars, added>>
    /\ UNCHANGED hashVars

(***************************************************************************)
(* fnv1a, one loop iteration at a time, on a string of its own.            *)
(***************************************************************************)
Codes == {0, 49, 97, 255, 65535}

RECURSIVE StringsUpTo(_)
StringsUpTo(n) ==
    IF n = 0 THEN {<<>>}
    ELSE StringsUpTo(n - 1) \cup
         {Append(s, c) : s \in {t \in StringsUpTo(n - 1) : Len(t) = n - 1}, c \in Codes}

FnvIterate ==
    /\ hPc = "loop"
    /\ hIndex < Len(hString)
    /\ hash' = FnvRound(hash, hString[hIndex + 1])
    /\ hIndex' = hIndex + 1
    /\ UNCHANGED <<hPc, hString>>
    /\ UNCHANGED <<filterVars, callVars>>

FnvReturn ==
    /\ hPc = "loop"
    /\ hIndex >= Len(hString)
    /\ hash' = ToUint32(hash)
    /\ hPc' = "done"
    /\ UNCHANGED <<hString, hIndex>>
    /\ UNCHANGED <<filterVars, callVars>>

(***************************************************************************)
(* Specifications.                                                         *)
(***************************************************************************)
InitFilter ==
    /\ status = "none"
    /\ props = <<>>
    /\ error = ""
    /\ bitArray = NewBitArray(0, FALSE)
    /\ numHashes = 0
    /\ hashFunction = "fnv1a"
    /\ added = {}
    /\ repeated = FALSE
    /\ lastOp = "none"
    /\ lastValue = NoValue
    /\ lastCheck = FALSE
    /\ lastNum = 0
    /\ lastHashes = <<>>

Init ==
    /\ InitFilter
    /\ hPc = "idle"
    /\ hString = <<>>
    /\ hIndex = 0
    /\ hash = OFFSET_BASIS_32

Next ==
    \/ \E arg \in Optional(PropsSet) : Construct(arg)
    \/ \E value \in Values : add(value)
    \/ \E value \in Values : check(value)
    \/ getSize
    \/ getNumHashes

Spec == Init /\ [][Next]_vars

InitHash ==
    /\ InitFilter
    /\ hPc = "loop"
    /\ hString \in StringsUpTo(MaxStrLen)
    /\ hIndex = 0
    /\ hash = OFFSET_BASIS_32

NextHash == FnvIterate \/ FnvReturn

SpecHash == InitHash /\ [][NextHash]_vars

(***************************************************************************)
(* Properties.                                                             *)
(***************************************************************************)
\* the properties object the constructor worked on
GivenProps == IF Len(props) = 0 THEN EmptyProps ELSE props[1]

capacity == BitArraySize(bitArray)

\* C1: check(v) returns true for every value v passed to add before
C1_NoFalseNegatives ==
    (status = "ok" /\ lastOp = "check" /\ lastValue \in added) => lastCheck = TRUE

\* C2: on a constructed filter, before any add, check(v) returns false
C2_NegativeByAbsence ==
    (status = "ok" /\ lastOp = "check" /\ added = {}) => lastCheck = FALSE

\* C3: every constructed filter has capacity >= 1 and hashCount >= 1
C3_CapacityAndHashCountPositive ==
    status = "ok" => (capacity >= 1 /\ numHashes >= 1)

SizeOutOfRange(p) == Given(p.size) /\ ~(p.size[1] > 0)
NumHashesOutOfRange(p) == Given(p.numHashes) /\ ~(p.numHashes[1] > 0)
MaxCapacityOutOfRange(p) == Given(p.maxCapacity) /\ ~(p.maxCapacity[1] > 0)
RateOutOfRange(p) ==
    Given(p.falsePositiveRate)
    /\ ~(0 < p.falsePositiveRate[1] /\ p.falsePositiveRate[1] <= RateScale)

Rule1(p) == Given(p.size) /\ Given(p.numHashes)
Rule2(p) == Given(p.size) /\ Given(p.maxCapacity)
Rule3(p) == Given(p.maxCapacity) /\ Given(p.falsePositiveRate)

\* C5: the first of the three rules that matches decides capacity and
\* hashCount, whatever else is given
C5_ResolutionPriority ==
    status = "ok" =>
        LET p == GivenProps
        IN  /\ Rule1(p) => (capacity = p.size[1] /\ numHashes = p.numHashes[1])
            /\ (~Rule1(p) /\ Rule2(p)) =>
                  /\ capacity = p.size[1]
                  /\ numHashes = calculateNumHashes(p.size[1], p.maxCapacity[1])
            /\ (~Rule1(p) /\ ~Rule2(p) /\ Rule3(p)) =>
                  /\ capacity = calculateSize(p.maxCapacity[1], p.falsePositiveRate[1])
                  /\ numHashes = calculateNumHashes(capacity, p.maxCapacity[1])

\* size, maxCapacity and falsePositiveRate given: the second rule decides,
\* and the third rule would have given another capacity
C5_Witness ==
    /\ status = "ok"
    /\ ~Given(GivenProps.numHashes)
    /\ Given(GivenProps.size)
    /\ Given(GivenProps.maxCapacity)
    /\ Given(GivenProps.falsePositiveRate)
    /\ capacity = 3
    /\ numHashes = 2
    /\ calculateSize(GivenProps.maxCapacity[1], GivenProps.falsePositiveRate[1]) = 12

\* C6: when no rule matches, capacity is size if given, else 10000, and
\* hashCount is numHashes if given, else 4
C6_Defaults ==
    (status = "ok" /\ ~Rule1(GivenProps) /\ ~Rule2(GivenProps) /\ ~Rule3(GivenProps)) =>
        /\ capacity = IF Given(GivenProps.size) THEN GivenProps.size[1] ELSE 10000
        /\ numHashes = IF Given(GivenProps.numHashes) THEN GivenProps.numHashes[1] ELSE 4

\* numHashes with maxCapacity, which is no pair of a rule
C6_Witness ==
    /\ status = "ok"
    /\ Len(props) = 1
    /\ Given(GivenProps.numHashes)
    /\ Given(GivenProps.maxCapacity)
    /\ ~Given(GivenProps.size)
    /\ ~Given(GivenProps.falsePositiveRate)
    /\ capacity = 10000
    /\ numHashes = 2

\* C7: every index add and check compute lies in [0, capacity)
C7_IndexInRange ==
    \A i \in 1 .. Len(lastHashes) : lastHashes[i] >= 0 /\ lastHashes[i] < capacity

\* C8: every true bit stays true through every operation, and check, getSize
\* and getNumHashes leave the bit vector as it is
C8_Monotonic ==
    [][/\ bitArray.bits \subseteq bitArray'.bits
       /\ bitArray.stray \subseteq bitArray'.stray
       /\ lastOp' \in {"check", "getSize", "getNumHashes"} => bitArray' = bitArray]_vars

\* two values were added to a vector with several bits set
C8_Witness ==
    /\ lastOp = "add"
    /\ Cardinality(added) >= 2
    /\ Cardinality(bitArray.bits) >= 3

\* C10: adding a value that was added before leaves the bit vector as it is
C10_AddIdempotent ==
    [][(lastOp' = "add" /\ lastValue' \in added) => bitArray' = bitArray]_vars

\* a value was added again, after another one, to a vector with bits set
C10_Witness ==
    /\ lastOp = "add"
    /\ repeated
    /\ Cardinality(added) >= 2
    /\ bitArray.bits # {}

\* 16777619
FNV_PRIME == 16777619

\* u * FNV_PRIME modulo 2^32, for u in 0..2^32-1
MulPrime32(u) ==
    LET pHi == FNV_PRIME \div Limb
        pLo == FNV_PRIME % Limb
        t == u[2] * pLo
    IN  <<(u[1] * pLo + u[2] * pHi + (t \div Limb)) % Limb, t % Limb>>

\* FNV-1a on unsigned 32-bit numbers with a wrapped multiply
RECURSIVE Fnv1aReference(_, _, _)
Fnv1aReference(u, string, i) ==
    IF i > Len(string) THEN u
    ELSE Fnv1aReference(MulPrime32(<<u[1], BitXor(u[2], string[i])>>), string, i + 1)

\* C9: fnv1a returns the 32-bit FNV-1a hash computed modulo 2^32, a value in
\* [0, 2^32), and 2166136261 for the empty string
C9_Fnv1aIsFnv32 ==
    hPc = "done" =>
        /\ hash = Fnv1aReference(OFFSET_BASIS_32, hString, 1)
        /\ hash = fnv1a(hString)
        /\ hash[1] \in 0 .. (Limb - 1)
        /\ hash[2] \in 0 .. (Limb - 1)
        /\ hString = <<>> => hash = <<33052, 40389>>

\* a string of the greatest length whose hash is 2^31 or greater
C9_Witness ==
    /\ hPc = "done"
    /\ Len(hString) = MaxStrLen
    /\ hash[1] >= HalfLimb

====
